---- MODULE Spec2Model ----
(***************************************************************************)
(* Booking ("Schedule") lifecycle of rim_inseption/inseption: the request  *)
(* handlers of views.py over the Schedule and Inspection tables of         *)
(* models.py, and the two delayed status tasks the handlers hand to the    *)
(* task queue.                                                             *)
(*                                                                         *)
(* Times of day are seconds since midnight (0 .. 86399), dates are day     *)
(* numbers (day 0 is the day the clock starts on), and an instant is       *)
(* date * 86400 + time of day.  Clock readings have microsecond = 0.       *)
(***************************************************************************)
EXTENDS Integers, Sequences, FiniteSets, TLC

VARIABLES
    schedules,  \* the Schedule table: row i is the booking with id = i
    tasks,      \* the delayed tasks handed to the queue
    now,        \* the wall clock (timezone.localtime()), an instant
    lastOp,     \* the last operation performed and the response it returned
    req,        \* in-flight requests of the interleaved specification
    inspections, \* the Inspection table: a sequence of rows
    listing     \* the "schedules" body of the last list response: their ids

vars == <<schedules, tasks, now, lastOp, req, inspections, listing>>

\* What the Schedule handlers and the tasks never touch.
rest == <<inspections, listing>>

----------------------------------------------------------------------------
(* Bounds of the model.                                                    *)

MaxSchedules == 2   \* rows the table may hold
MaxWindows == 2     \* windows of 3 minutes the clock of SpecLive runs through
MaxInspections == 2 \* rows the Inspection table may hold

----------------------------------------------------------------------------
(* Program constants.                                                      *)

SecondsPerMinute == 60
SecondsPerDay == 86400
\* timedelta(hours=1) of Schedule.save(), in minutes.
OneHourMinutes == 60

\* timedelta(minutes=3) of the three handlers.
WindowMinutes == 3

----------------------------------------------------------------------------
(* Inputs the requests are drawn from.                                     *)

\* request.data["location"]; "" stands for a missing or empty field.
Locations == {"A", " A"}

\* request.data["scheduled_date"] as (day number); <<>> is a missing field.
Dates == {<<0>>}

\* request.data["scheduled_time"] as <<hour, minute, second>> ("HH:MM" has
\* second 0); <<>> is a missing field.
Times == {<<9, 0, 0>>, <<9, 2, 0>>, <<9, 3, 0>>}

\* Readings of the clock: 09:00:30 and 09:03:00 of day 0.
ClockReadings == {9 * 3600 + 0 * 60 + 30, 9 * 3600 + 3 * 60 + 0}

----------------------------------------------------------------------------
(* Dates and times: datetime, timedelta, strptime.                         *)

\* datetime.strptime(t, "%H:%M").time() / "%H:%M:%S": the time of day.
parse_time(t) == t[1] * 3600 + t[2] * SecondsPerMinute + t[3]

\* datetime.strptime(date, "%Y-%m-%d").date()
parse_date(d) == d[1]

\* datetime.combine(date, time)
combine(date, time) == date * SecondsPerDay + time

\* dt.date() and dt.time()
date_of(dt) == dt \div SecondsPerDay
time_of(dt) == dt % SecondsPerDay

\* dt.replace(second=0, microsecond=0)
replace_second0(dt) == dt - (dt % SecondsPerMinute)

\* plus_minutes with timedelta(hours=m).
plus_hours(dt, m) == dt + m * 3600

\* dt + timedelta(minutes=m)
plus_minutes(dt, m) == dt + m * SecondsPerMinute

----------------------------------------------------------------------------
(* The Schedule table and the serializer.                                  *)

\* A null end_time column.
NoTime == 0 - 1

\* rest_framework CharField(trim_whitespace=True), the field ModelSerializer
\* builds for Schedule.location: str(value).strip().
strip(s) == IF s = " A" THEN "A" ELSE s

\* Schedule.save(): end_time defaults to scheduled_time + 1 hour only when
\* the row has none.
Schedule_save(row) ==
    IF row.end_time = NoTime
    THEN [row EXCEPT !.end_time =
            time_of(plus_minutes(combine(row.scheduled_date, row.scheduled_time),
                                 OneHourMinutes))]
    ELSE row

\* Schedule(location=, scheduled_date=, scheduled_time=, end_time=, status=)
\* saved: is_canceled takes its default.
Row(location, date, start, end, st) ==
    Schedule_save([ location       |-> location,
                    scheduled_date |-> date,
                    scheduled_time |-> start,
                    end_time       |-> end,
                    is_canceled    |-> FALSE,
                    status         |-> st ])

\* ScheduleSerializer(data=data).is_valid(); .save(): the validated location
\* is the stripped one, status takes the model default "scheduled".
ScheduleSerializer_save(location, date, start, end) ==
    Row(strip(location), date, start, end, "scheduled")

\* Schedule_filter with the two bounds compared by <= and >=.
Schedule_filter_closed(location, date, lt_end, gt_start) ==
    { i \in DOMAIN schedules :
        /\ schedules[i].location = location
        /\ schedules[i].scheduled_date = date
        /\ schedules[i].scheduled_time <= lt_end
        /\ schedules[i].end_time >= gt_start }

\* Schedule.objects.filter(location=, scheduled_date=, scheduled_time__lt=,
\* end_time__gt=): the ids of the matching rows.
Schedule_filter(location, date, lt_end, gt_start) ==
    { i \in DOMAIN schedules :
        /\ schedules[i].location = location
        /\ schedules[i].scheduled_date = date
        /\ schedules[i].scheduled_time < lt_end
        /\ schedules[i].end_time > gt_start }

\* Schedule_get without the is_canceled=False condition.
Schedule_get_any(schedule_id) == schedule_id \in DOMAIN schedules

\* Schedule.objects.get(id=schedule_id, is_canceled=False) finds a row.
Schedule_get(schedule_id) ==
    /\ schedule_id \in DOMAIN schedules
    /\ ~schedules[schedule_id].is_canceled

\* task.apply_async(args=[id], eta=eta): the message put on the queue.
apply_async(name, id, eta) == [name |-> name, id |-> id, eta |-> eta]

\* The response of a handler: the operation, the outcome and the fields a
\* "Missing required fields" message lists.
Response(op, result, missing) ==
    [op |-> op, result |-> result, missing |-> missing]

----------------------------------------------------------------------------
(* views.py: the request handlers, one request at a time.                  *)

\* missing_fields that stops at the first missing field.
missing_fields_first(location, date, time) ==
    IF location = "" THEN <<"location">>
    ELSE IF date = <<>> THEN <<"scheduled_date">>
    ELSE IF time = <<>> THEN <<"scheduled_time">>
    ELSE <<>>

\* The required-field validation of create_schedule.
missing_fields(location, date, time) ==
    (IF location = "" THEN <<"location">> ELSE <<>>)
        \o (IF date = <<>> THEN <<"scheduled_date">> ELSE <<>>)
        \o (IF time = <<>> THEN <<"scheduled_time">> ELSE <<>>)

\* POST schedule/create/
create_schedule(location, date, time) ==
    IF missing_fields(location, date, time) # <<>>
    THEN /\ lastOp' = Response("create", "missing",
                               missing_fields(location, date, time))
         /\ UNCHANGED <<schedules, tasks, now, req, rest>>
    ELSE LET scheduled_time == parse_time(time)
             scheduled_date == parse_date(date)
             new_start_dt == combine(scheduled_date, scheduled_time)
             new_end_dt == plus_minutes(new_start_dt, WindowMinutes)
             new_end_time == time_of(new_end_dt)
             overlapping ==
                 Schedule_filter(location, scheduled_date, new_end_time,
                                 scheduled_time) # {}
             schedule == ScheduleSerializer_save(location, scheduled_date,
                                                 scheduled_time, new_end_time)
             id == Len(schedules) + 1
             start_datetime == combine(schedule.scheduled_date,
                                       schedule.scheduled_time)
             end_datetime == combine(schedule.scheduled_date, schedule.end_time)
         IN  IF overlapping
             THEN /\ lastOp' = Response("create", "conflict", <<>>)
                  /\ UNCHANGED <<schedules, tasks, now, req, rest>>
             ELSE /\ Len(schedules) < MaxSchedules
                  /\ schedules' = Append(schedules, schedule)
                  /\ tasks' = tasks \cup
                        { apply_async("set_status_processing", id, start_datetime),
                          apply_async("set_status_completed", id, end_datetime) }
                  /\ lastOp' = Response("create", "created", <<>>)
                  /\ UNCHANGED <<now, req, rest>>

\* POST schedule/create-immediately/
create_schedule_immediately(location) ==
    IF location = ""
    THEN /\ lastOp' = Response("create_immediately", "missing",
                               <<"location">>)
         /\ UNCHANGED <<schedules, tasks, now, req, rest>>
    ELSE LET rounded_now == replace_second0(now)
             scheduled_date == date_of(rounded_now)
             scheduled_time == time_of(rounded_now)
             new_end_dt == plus_minutes(rounded_now, WindowMinutes)
             end_time == time_of(replace_second0(new_end_dt))
             overlapping ==
                 Schedule_filter(location, scheduled_date, end_time,
                                 scheduled_time) # {}
             id == Len(schedules) + 1
         IN  IF overlapping
             THEN /\ lastOp' = Response("create_immediately", "conflict", <<>>)
                  /\ UNCHANGED <<schedules, tasks, now, req, rest>>
             ELSE /\ Len(schedules) < MaxSchedules
                  /\ schedules' = Append(schedules,
                        Row(location, scheduled_date, scheduled_time, end_time,
                            "processing"))
                  /\ tasks' = tasks \cup
                        { apply_async("set_status_processing", id, rounded_now),
                          apply_async("set_status_completed", id, new_end_dt) }
                  /\ lastOp' = Response("create_immediately", "created", <<>>)
                  /\ UNCHANGED <<now, req, rest>>

\* update_schedule without .exclude(id=schedule_id) in the overlap check.
update_schedule_self_conflict(schedule_id, data) ==
    IF ~Schedule_get(schedule_id)
    THEN /\ lastOp' = Response("update", "not_found", <<>>)
         /\ UNCHANGED <<schedules, tasks, now, req, rest>>
    ELSE LET schedule == schedules[schedule_id]
             location == IF data = <<>> THEN schedule.location ELSE data[1]
             rounded_now == replace_second0(now)
             new_end_dt == plus_minutes(now, WindowMinutes)
             overlapping ==
                 Schedule_filter(location, date_of(rounded_now),
                                 time_of(new_end_dt),
                                 time_of(rounded_now)) # {}
         IN  IF overlapping
             THEN /\ lastOp' = Response("update", "conflict", <<>>)
                  /\ UNCHANGED <<schedules, tasks, now, req, rest>>
             ELSE /\ schedules' = [schedules EXCEPT ![schedule_id] =
                        [schedule EXCEPT
                           !.location = location,
                           !.scheduled_date = date_of(rounded_now),
                           !.scheduled_time = time_of(rounded_now),
                           !.end_time = time_of(new_end_dt),
                           !.status = "processing"]]
                  /\ tasks' = tasks \cup
                        { apply_async("set_status_processing", schedule_id,
                                      now),
                          apply_async("set_status_completed", schedule_id,
                                      new_end_dt) }
                  /\ lastOp' = Response("update", "updated", <<>>)
                  /\ UNCHANGED <<now, req, rest>>

\* PUT schedule/update-immediately/<schedule_id>/ ; data is <<>> or
\* <<location>>, the request body without or with a "location" key.
update_schedule(schedule_id, data) ==
    IF ~Schedule_get(schedule_id)
    THEN /\ lastOp' = Response("update", "not_found", <<>>)
         /\ UNCHANGED <<schedules, tasks, now, req, rest>>
    ELSE LET schedule == schedules[schedule_id]
             location == IF data = <<>> THEN schedule.location ELSE data[1]
             rounded_now == replace_second0(now)
             new_scheduled_date == date_of(rounded_now)
             new_scheduled_time == time_of(rounded_now)
             new_end_dt == plus_minutes(now, WindowMinutes)
             new_end_time == time_of(new_end_dt)
             overlapping ==
                 Schedule_filter(location, new_scheduled_date, new_end_time,
                                 new_scheduled_time) \ {schedule_id} # {}
             start_datetime == now
             end_datetime == new_end_dt
         IN  IF overlapping
             THEN /\ lastOp' = Response("update", "conflict", <<>>)
                  /\ UNCHANGED <<schedules, tasks, now, req, rest>>
             ELSE /\ schedules' = [schedules EXCEPT ![schedule_id] =
                        Schedule_save(
                          [schedule EXCEPT !.location = location,
                                           !.scheduled_date = new_scheduled_date,
                                           !.scheduled_time = new_scheduled_time,
                                           !.end_time = new_end_time,
                                           !.status = "processing"])]
                  /\ tasks' = tasks \cup
                        { apply_async("set_status_processing", schedule_id,
                                      start_datetime),
                          apply_async("set_status_completed", schedule_id,
                                      end_datetime) }
                  /\ lastOp' = Response("update", "updated", <<>>)
                  /\ UNCHANGED <<now, req, rest>>

\* delete_schedule without the status == "completed" check.
delete_schedule_unchecked(schedule_id) ==
    IF ~Schedule_get(schedule_id)
    THEN /\ lastOp' = Response("delete", "not_found", <<>>)
         /\ UNCHANGED <<schedules, tasks, now, req, rest>>
    ELSE /\ schedules' = [schedules EXCEPT ![schedule_id].is_canceled = TRUE]
         /\ lastOp' = Response("delete", "deleted", <<>>)
         /\ UNCHANGED <<tasks, now, req, rest>>

\* DELETE schedule/delete/<schedule_id>/
delete_schedule(schedule_id) ==
    IF ~Schedule_get(schedule_id)
    THEN /\ lastOp' = Response("delete", "not_found", <<>>)
         /\ UNCHANGED <<schedules, tasks, now, req, rest>>
    ELSE IF schedules[schedule_id].status = "completed"
         THEN /\ lastOp' = Response("delete", "completed", <<>>)
              /\ UNCHANGED <<schedules, tasks, now, req, rest>>
         ELSE /\ schedules' = [schedules EXCEPT
                                 ![schedule_id].is_canceled = TRUE]
              /\ lastOp' = Response("delete", "deleted", <<>>)
              /\ UNCHANGED <<tasks, now, req, rest>>

----------------------------------------------------------------------------
(* tasks.py: the two delayed tasks, and the worker that runs them.         *)

\* set_status_processing overwriting whatever status is present.
set_status_processing_overwrite(schedule_id) ==
    IF /\ schedule_id \in DOMAIN schedules
       /\ ~schedules[schedule_id].is_canceled
    THEN [schedules EXCEPT ![schedule_id].status = "processing"]
    ELSE schedules

\* set_status_processing(schedule_id): the table after the task ran.
set_status_processing(schedule_id) ==
    IF /\ schedule_id \in DOMAIN schedules
       /\ ~schedules[schedule_id].is_canceled
       /\ schedules[schedule_id].status # "completed"
    THEN [schedules EXCEPT ![schedule_id].status = "processing"]
    ELSE schedules

\* set_status_completed without the is_canceled guard.
set_status_completed_unguarded(schedule_id) ==
    IF schedule_id \in DOMAIN schedules
    THEN [schedules EXCEPT ![schedule_id].status = "completed"]
    ELSE schedules

\* set_status_completed(schedule_id): the table after the task ran.
set_status_completed(schedule_id) ==
    IF /\ schedule_id \in DOMAIN schedules
       /\ ~schedules[schedule_id].is_canceled
    THEN [schedules EXCEPT ![schedule_id].status = "completed"]
    ELSE schedules

\* A worker runs a queued task whose eta has passed.  Delivery is at least
\* once and redelivery is unbounded, so the message stays in the queue: the
\* task runs any number of times, in any order with the other due tasks.
run_task(t) ==
    /\ t.eta <= now
    /\ schedules' = IF t.name = "set_status_processing"
                    THEN set_status_processing(t.id)
                    ELSE set_status_completed(t.id)
    /\ lastOp' = Response(t.name, "ran", <<>>)
    /\ UNCHANGED <<tasks, now, req, rest>>

\* The clock moves on to a later reading.
Tick(t) ==
    /\ t > now
    /\ now' = t
    /\ lastOp' = Response("tick", "", <<>>)
    /\ UNCHANGED <<schedules, tasks, req, rest>>

----------------------------------------------------------------------------
(* One request at a time.                                                  *)

Procs == {1, 2}

\* No request in flight.
Idle ==
    [ pc |-> "idle", location |-> "", id |-> 0,
      row |-> [ location |-> "", scheduled_date |-> 0, scheduled_time |-> 0,
                end_time |-> 0, is_canceled |-> FALSE, status |-> "" ],
      start_eta |-> 0, end_eta |-> 0 ]

Init ==
    /\ schedules = <<>>
    /\ tasks = {}
    /\ now = 9 * 3600 + 30
    /\ lastOp = Response("none", "", <<>>)
    /\ req = [p \in Procs |-> Idle]
    /\ inspections = <<>>
    /\ listing = <<>>

Ids == 1 .. MaxSchedules

\* The bodies of the create requests: every complete one, and one without a
\* location.
CreateRequests ==
    (Locations \X Dates \X Times) \cup {<<"", <<0>>, <<9, 0, 0>>>>}

Create == \E r \in CreateRequests : create_schedule(r[1], r[2], r[3])

CreateImmediately ==
    \E l \in Locations \cup {""} : create_schedule_immediately(l)

Update == \E i \in Ids, data \in {<<>>} \cup {<<l>> : l \in Locations} :
             update_schedule(i, data)

Delete == \E i \in Ids : delete_schedule(i)

RunTask == \E t \in tasks : run_task(t)

ClockTick == \E t \in ClockReadings : Tick(t)

Next == Create \/ CreateImmediately \/ Update \/ Delete \/ RunTask \/ ClockTick

Spec == Init /\ [][Next]_vars

----------------------------------------------------------------------------
(* Requests served concurrently (several workers, no transaction and no    *)
(* lock in views.py): each handler reads the table for its conflict check   *)
(* in one step and writes in a later one.                                  *)

\* A request between its check and its write: the location it checked, the
\* row it will write, the id it writes to (0 for an insert) and the two etas.
InFlight(pc, location, id, row, start_eta, end_eta) ==
    [ pc |-> pc, location |-> location, id |-> id, row |-> row,
      start_eta |-> start_eta, end_eta |-> end_eta ]

\* create_schedule up to the overlap check.
create_schedule_check(p, location, date, time) ==
    /\ req[p].pc = "idle"
    /\ missing_fields(location, date, time) = <<>>
    /\ LET scheduled_time == parse_time(time)
           scheduled_date == parse_date(date)
           new_start_dt == combine(scheduled_date, scheduled_time)
           new_end_dt == plus_minutes(new_start_dt, WindowMinutes)
           new_end_time == time_of(new_end_dt)
           overlapping ==
               Schedule_filter(location, scheduled_date, new_end_time,
                               scheduled_time) # {}
           schedule == ScheduleSerializer_save(location, scheduled_date,
                                               scheduled_time, new_end_time)
       IN  IF overlapping
           THEN /\ lastOp' = Response("create", "conflict", <<>>)
                /\ UNCHANGED req
           ELSE /\ req' = [req EXCEPT ![p] =
                     InFlight("create", location, 0, schedule,
                              combine(schedule.scheduled_date,
                                      schedule.scheduled_time),
                              combine(schedule.scheduled_date,
                                      schedule.end_time))]
                /\ UNCHANGED lastOp
    /\ UNCHANGED <<schedules, tasks, now, rest>>

\* create_schedule_immediately up to the overlap check.
create_schedule_immediately_check(p, location) ==
    /\ req[p].pc = "idle"
    /\ location # ""
    /\ LET rounded_now == replace_second0(now)
           scheduled_date == date_of(rounded_now)
           scheduled_time == time_of(rounded_now)
           new_end_dt == plus_minutes(rounded_now, WindowMinutes)
           end_time == time_of(replace_second0(new_end_dt))
           overlapping ==
               Schedule_filter(location, scheduled_date, end_time,
                               scheduled_time) # {}
       IN  IF overlapping
           THEN /\ lastOp' = Response("create_immediately", "conflict", <<>>)
                /\ UNCHANGED req
           ELSE /\ req' = [req EXCEPT ![p] =
                     InFlight("create_immediately", location, 0,
                              Row(location, scheduled_date, scheduled_time,
                                  end_time, "processing"),
                              rounded_now, new_end_dt)]
                /\ UNCHANGED lastOp
    /\ UNCHANGED <<schedules, tasks, now, rest>>

\* update_schedule up to the overlap check; the instance it loaded is saved
\* whole by schedule.save().
update_schedule_check(p, schedule_id, data) ==
    /\ req[p].pc = "idle"
    /\ Schedule_get(schedule_id)
    /\ LET schedule == schedules[schedule_id]
           location == IF data = <<>> THEN schedule.location ELSE data[1]
           rounded_now == replace_second0(now)
           new_scheduled_date == date_of(rounded_now)
           new_scheduled_time == time_of(rounded_now)
           new_end_dt == plus_minutes(now, WindowMinutes)
           new_end_time == time_of(new_end_dt)
           overlapping ==
               Schedule_filter(location, new_scheduled_date, new_end_time,
                               new_scheduled_time) \ {schedule_id} # {}
       IN  IF overlapping
           THEN /\ lastOp' = Response("update", "conflict", <<>>)
                /\ UNCHANGED req
           ELSE /\ req' = [req EXCEPT ![p] =
                     InFlight("update", location, schedule_id,
                              [schedule EXCEPT
                                 !.location = location,
                                 !.scheduled_date = new_scheduled_date,
                                 !.scheduled_time = new_scheduled_time,
                                 !.end_time = new_end_time,
                                 !.status = "processing"],
                              now, new_end_dt)]
                /\ UNCHANGED lastOp
    /\ UNCHANGED <<schedules, tasks, now, rest>>

\* serializer.save() / Schedule.objects.create() and the two apply_async.
insert_schedule(p) ==
    /\ req[p].pc \in {"create", "create_immediately"}
    /\ Len(schedules) < MaxSchedules
    /\ schedules' = Append(schedules, req[p].row)
    /\ tasks' = tasks \cup
          { apply_async("set_status_processing", Len(schedules) + 1,
                        req[p].start_eta),
            apply_async("set_status_completed", Len(schedules) + 1,
                        req[p].end_eta) }
    /\ lastOp' = Response(req[p].pc, "created", <<>>)
    /\ req' = [req EXCEPT ![p] = Idle]
    /\ UNCHANGED <<now, rest>>

\* schedule.save() of update_schedule and the two apply_async.
save_schedule(p) ==
    /\ req[p].pc = "update"
    /\ schedules' = [schedules EXCEPT ![req[p].id] = Schedule_save(req[p].row)]
    /\ tasks' = tasks \cup
          { apply_async("set_status_processing", req[p].id, req[p].start_eta),
            apply_async("set_status_completed", req[p].id, req[p].end_eta) }
    /\ lastOp' = Response("update", "updated", <<>>)
    /\ req' = [req EXCEPT ![p] = Idle]
    /\ UNCHANGED <<now, rest>>

CreateCheck ==
    \E p \in Procs, l \in Locations, d \in Dates, t \in Times :
        create_schedule_check(p, l, d, t)

CreateImmediatelyCheck ==
    \E p \in Procs, l \in Locations : create_schedule_immediately_check(p, l)

UpdateCheck ==
    \E p \in Procs, i \in Ids, data \in {<<>>} \cup {<<l>> : l \in Locations} :
        update_schedule_check(p, i, data)

Insert == \E p \in Procs : insert_schedule(p)

Save == \E p \in Procs : save_schedule(p)

NextConc ==
    \/ CreateCheck
    \/ CreateImmediatelyCheck
    \/ UpdateCheck
    \/ Insert
    \/ Save

SpecConc == Init /\ [][NextConc]_vars

----------------------------------------------------------------------------
(* The windows the three handlers propose, as the claims state them.       *)

\* create: [scheduled_time, scheduled_time + 3 minutes), as times of day.
CreateWindow(t) ==
    [a |-> parse_time(t),
     b |-> (parse_time(t) + WindowMinutes * SecondsPerMinute) % SecondsPerDay]

\* create_immediate: [now rounded to the minute, that + 3 minutes).
ImmediateWindow ==
    [a |-> (now - (now % SecondsPerMinute)) % SecondsPerDay,
     b |-> (now - (now % SecondsPerMinute) + WindowMinutes * SecondsPerMinute)
              % SecondsPerDay]

\* update: [now rounded to the minute, now + 3 minutes).
UpdateWindow ==
    [a |-> (now - (now % SecondsPerMinute)) % SecondsPerDay,
     b |-> (now + WindowMinutes * SecondsPerMinute) % SecondsPerDay]

Today == now \div SecondsPerDay

\* Some row other than `exclude`, at the location and date, has a window
\* [c, d) with a < d and c < b.
SomeOverlap(location, date, w, exclude) ==
    \E i \in DOMAIN schedules \ {exclude} :
        /\ schedules[i].location = location
        /\ schedules[i].scheduled_date = date
        /\ w.a < schedules[i].end_time
        /\ schedules[i].scheduled_time < w.b

\* The location an update request checks and stores.
UpdateLocation(i, data) ==
    IF data = <<>> THEN schedules[i].location ELSE data[1]

UpdateData == {<<>>} \cup {<<l>> : l \in Locations}

\* C4: the conflict check of create, create_immediate and update answers
\* "conflict" exactly when some considered row at the same location and date
\* has a window [c, d) with a < d and c < b, for the proposed window [a, b).
C4_ConflictIffOverlap ==
    [][ /\ \A l \in Locations, d \in Dates, t \in Times :
              (lastOp'.op = "create" /\ create_schedule(l, d, t)) =>
                  (lastOp'.result = "conflict"
                     <=> SomeOverlap(l, d[1], CreateWindow(t), 0))
        /\ \A l \in Locations :
              ( /\ lastOp'.op = "create_immediately"
                /\ create_schedule_immediately(l) ) =>
                  (lastOp'.result = "conflict"
                     <=> SomeOverlap(l, Today, ImmediateWindow, 0))
        /\ \A i \in Ids, data \in UpdateData :
              ( /\ lastOp'.op = "update"
                /\ i \in DOMAIN schedules
                /\ ~schedules[i].is_canceled
                /\ update_schedule(i, data) ) =>
                  (lastOp'.result = "conflict"
                     <=> SomeOverlap(UpdateLocation(i, data), Today,
                                     UpdateWindow, i))
      ]_vars

\* Rows i and j are two distinct non-canceled bookings of one location and
\* date whose windows [scheduled_time, end_time) overlap.
DoubleBooked(i, j) ==
    /\ i # j
    /\ ~schedules[i].is_canceled
    /\ ~schedules[j].is_canceled
    /\ schedules[i].location = schedules[j].location
    /\ schedules[i].scheduled_date = schedules[j].scheduled_date
    /\ schedules[i].scheduled_time < schedules[j].end_time
    /\ schedules[j].scheduled_time < schedules[i].end_time

\* C1: with one request at a time, no two distinct non-canceled bookings of
\* the same location and date have overlapping windows.
C1_NoDoubleBooking ==
    \A i \in DOMAIN schedules, j \in DOMAIN schedules : ~DoubleBooked(i, j)

\* Some non-canceled row other than `exclude`, at the location and date,
\* overlaps the window w.
SomeLiveOverlap(location, date, w, exclude) ==
    \E i \in DOMAIN schedules \ {exclude} :
        /\ ~schedules[i].is_canceled
        /\ schedules[i].location = location
        /\ schedules[i].scheduled_date = date
        /\ w.a < schedules[i].end_time
        /\ schedules[i].scheduled_time < w.b

\* C6: with requests interleaved, the conflict check and the write are
\* serialized per (location, date): a request never writes its window while
\* a non-canceled booking overlapping it is stored at the location and date
\* it checked, so two requests for overlapping windows never both succeed.
C6_CheckAndInsertSerialized ==
    [][ \A p \in Procs :
          (insert_schedule(p) \/ save_schedule(p)) =>
              ~SomeLiveOverlap(req[p].location, req[p].row.scheduled_date,
                               [a |-> req[p].row.scheduled_time,
                                b |-> req[p].row.end_time],
                               req[p].id)
      ]_vars

\* C2: a request whose window overlaps only canceled bookings, at its
\* location and date, is not rejected with a conflict and succeeds.
C2_CanceledExcludedFromCheck ==
    [][ /\ \A l \in Locations, d \in Dates, t \in Times :
              ( /\ lastOp'.op = "create"
                /\ create_schedule(l, d, t)
                /\ SomeOverlap(l, d[1], CreateWindow(t), 0)
                /\ ~SomeLiveOverlap(l, d[1], CreateWindow(t), 0) )
                  => lastOp'.result = "created"
        /\ \A l \in Locations :
              ( /\ lastOp'.op = "create_immediately"
                /\ create_schedule_immediately(l)
                /\ SomeOverlap(l, Today, ImmediateWindow, 0)
                /\ ~SomeLiveOverlap(l, Today, ImmediateWindow, 0) )
                  => lastOp'.result = "created"
        /\ \A i \in Ids, data \in UpdateData :
              ( /\ lastOp'.op = "update"
                /\ i \in DOMAIN schedules
                /\ ~schedules[i].is_canceled
                /\ update_schedule(i, data)
                /\ SomeOverlap(UpdateLocation(i, data), Today, UpdateWindow, i)
                /\ ~SomeLiveOverlap(UpdateLocation(i, data), Today,
                                    UpdateWindow, i) )
                  => lastOp'.result = "updated"
      ]_vars

T0900 == 9 * 3600
T0903 == 9 * 3600 + 3 * 60
T1000 == 10 * 3600

\* Row i is a booking at the location and date with the window [a, b).
Booked(i, location, date, a, b) ==
    /\ schedules[i].location = location
    /\ schedules[i].scheduled_date = date
    /\ schedules[i].scheduled_time = a
    /\ schedules[i].end_time = b

\* The scenario of C3 with the first booking's window ending at `end`, the
\* rejected second create at `inside` and the accepted third one at `after`:
\* create at 09:00 stores [09:00, end); with that booking stored, a create
\* at `inside` is answered "conflict" and stores nothing; with no other
\* window stored at the location and date, a create at `after` succeeds.
Scenario(end, inside, after) ==
    lastOp'.op = "create" => \A l \in Locations, d \in Dates :
        /\ (create_schedule(l, d, <<9, 0, 0>>) /\ lastOp'.result = "created")
             => /\ Len(schedules') = Len(schedules) + 1
                /\ schedules'[Len(schedules')].scheduled_time = T0900
                /\ schedules'[Len(schedules')].end_time = end
        /\ ( /\ \E i \in DOMAIN schedules : Booked(i, l, d[1], T0900, end)
             /\ create_schedule(l, d, inside) )
             => /\ lastOp'.result = "conflict"
                /\ schedules' = schedules
                /\ tasks' = tasks
        /\ ( /\ \E i \in DOMAIN schedules : Booked(i, l, d[1], T0900, end)
             /\ \A i \in DOMAIN schedules :
                    (schedules[i].location = l /\ schedules[i].scheduled_date = d[1])
                        => Booked(i, l, d[1], T0900, end)
             /\ create_schedule(l, d, after) )
             => /\ lastOp'.result = "created"
                /\ Len(schedules') = Len(schedules) + 1

C4_Witness ==
    /\ lastOp.op = "create_immediately"
    /\ lastOp.result = "conflict"
    /\ schedules # <<>>
    /\ \A i \in DOMAIN schedules :
          /\ schedules[i].scheduled_date = Today
          /\ schedules[i].scheduled_time <= ImmediateWindow.a
          /\ ImmediateWindow.b <= schedules[i].end_time

\* The order of the three statuses.
Rank(st) == IF st = "scheduled" THEN 0 ELSE IF st = "processing" THEN 1 ELSE 2

\* C5: no step moves a booking's status backwards in the order Scheduled,
\* Processing, Completed, and no step changes a Completed booking.
C5_StatusForwardOnly ==
    [][ \A i \in DOMAIN schedules :
          /\ Rank(schedules'[i].status) >= Rank(schedules[i].status)
          /\ schedules[i].status = "completed" => schedules'[i] = schedules[i]
      ]_vars

\* C7: delete of a non-canceled Completed booking is refused and changes
\* nothing; delete of a non-canceled Scheduled or Processing booking sets
\* is_canceled and nothing else.
C7_DeleteByStatus ==
    [][ \A i \in Ids :
          ( /\ lastOp'.op = "delete"
            /\ i \in DOMAIN schedules
            /\ ~schedules[i].is_canceled
            /\ delete_schedule(i) )
              => IF schedules[i].status = "completed"
                 THEN /\ lastOp'.result = "completed"
                      /\ schedules' = schedules
                 ELSE /\ lastOp'.result = "deleted"
                      /\ schedules' =
                           [schedules EXCEPT ![i].is_canceled = TRUE]
                      /\ tasks' = tasks
      ]_vars

\* A delete was refused as "completed" while every stored booking is
\* Completed and not canceled.
C7_Witness ==
    /\ lastOp.op = "delete"
    /\ lastOp.result = "completed"
    /\ \A i \in DOMAIN schedules :
          schedules[i].status = "completed" /\ ~schedules[i].is_canceled

\* The id names no booking, or a canceled one.
NoLiveBooking(i) == i \notin DOMAIN schedules \/ schedules[i].is_canceled

\* C8: update and delete of an id that does not exist or is canceled answer
\* "not found", change no booking and schedule no transition.
C8_NotFound ==
    [][ \A i \in Ids, data \in UpdateData :
          ( /\ lastOp'.op \in {"update", "delete"}
            /\ NoLiveBooking(i)
            /\ (update_schedule(i, data) \/ delete_schedule(i)) )
              => /\ lastOp'.result = "not_found"
                 /\ schedules' = schedules
                 /\ tasks' = tasks
      ]_vars

\* An update was answered "not found" while every id names a canceled
\* booking.
C8_Witness ==
    /\ lastOp.op = "update"
    /\ lastOp.result = "not_found"
    /\ \A i \in Ids : i \in DOMAIN schedules /\ schedules[i].is_canceled

\* C9: a "set Processing" task that runs on a Completed booking changes
\* nothing, in whatever order and however often the tasks run, and a
\* "set Completed" task that runs on a non-canceled booking sets Completed.
C9_ProcessingNeverRegresses ==
    [][ \A t \in tasks :
          (lastOp'.result = "ran" /\ run_task(t)) =>
            /\ ( /\ t.name = "set_status_processing"
                 /\ schedules[t.id].status = "completed" )
                   => schedules' = schedules
            /\ ( /\ t.name = "set_status_completed"
                 /\ ~schedules[t.id].is_canceled )
                   => schedules' = [schedules EXCEPT ![t.id].status = "completed"]
      ]_vars

\* A "set Processing" task has just run while every stored booking is
\* Completed and not canceled.
C9_Witness ==
    /\ lastOp.op = "set_status_processing"
    /\ \A i \in DOMAIN schedules :
          schedules[i].status = "completed" /\ ~schedules[i].is_canceled

\* C10: once a booking is canceled, the tasks that run afterwards are
\* no-ops: every later step leaves its status as it was at cancellation and
\* is_canceled true.
C10_CanceledTasksNoOp ==
    [][ /\ \A i \in DOMAIN schedules :
              schedules[i].is_canceled
                  => /\ schedules'[i].is_canceled
                     /\ schedules'[i].status = schedules[i].status
        /\ \A t \in tasks :
              ( /\ lastOp'.result = "ran"
                /\ run_task(t)
                /\ schedules[t.id].is_canceled )
                  => schedules' = schedules
      ]_vars

\* A "set Completed" task has just run while every stored booking is
\* canceled and still Scheduled, as it was when it was canceled.
C10_Witness ==
    /\ lastOp.op = "set_status_completed"
    /\ \A i \in DOMAIN schedules :
          schedules[i].is_canceled /\ schedules[i].status = "scheduled"

----------------------------------------------------------------------------
(* The immediate path under fair scheduling: the clock runs on to a last   *)
(* reading, the worker runs every due task, and requests arrive while the  *)
(* window they open ends by the last reading.                              *)

\* The last reading of the clock: MaxWindows windows after 09:00 of day 0.
Horizon == 9 * 3600 + MaxWindows * WindowMinutes * SecondsPerMinute

LiveReadings == ClockReadings \cup {Horizon}

\* The window a request opens now ends by the last reading.
InHorizon == now + WindowMinutes * SecondsPerMinute <= Horizon

LiveCreateImmediately == InHorizon /\ CreateImmediately

LiveUpdate == InHorizon /\ Update

LiveClockTick == \E t \in LiveReadings : Tick(t)

NextLive ==
    \/ LiveCreateImmediately
    \/ LiveUpdate
    \/ Delete
    \/ RunTask
    \/ LiveClockTick

\* Every message the handlers of SpecLive can put on the queue.
LiveTasks ==
    { apply_async(n, i, eta) :
        n \in {"set_status_processing", "set_status_completed"},
        i \in Ids,
        eta \in { r + d : r \in LiveReadings \cup {replace_second0(r) :
                                                    r \in LiveReadings},
                          d \in {0, WindowMinutes * SecondsPerMinute} } }

\* The clock keeps running and the worker runs every task that is due.
Fairness ==
    /\ WF_vars(LiveClockTick)
    /\ \A t \in LiveTasks : WF_vars(t \in tasks /\ run_task(t))

SpecLive == Init /\ [][NextLive]_vars /\ Fairness

\* This step is a successful update of booking i.
Updated(i) ==
    \E data \in UpdateData :
        update_schedule(i, data) /\ lastOp'.result = "updated"

\* Booking i, if stored, is canceled or Completed.
Settled(i) ==
    i \in DOMAIN schedules =>
        schedules[i].is_canceled \/ schedules[i].status = "completed"

\* The effect of create_immediate, as C11 states it: with no conflict the
\* request creates a booking that is Processing at once and has the window
\* [now rounded to the minute, that instant + 3 minutes).
ImmediateCreates ==
    \A l \in Locations :
        ( /\ lastOp'.op = "create_immediately"
          /\ create_schedule_immediately(l)
          /\ ~SomeOverlap(l, Today, ImmediateWindow, 0) )
            => /\ lastOp'.result = "created"
               /\ Len(schedules') = Len(schedules) + 1
               /\ schedules'[Len(schedules')].status = "processing"
               /\ ~schedules'[Len(schedules')].is_canceled
               /\ schedules'[Len(schedules')].location = l
               /\ schedules'[Len(schedules')].scheduled_date = Today
               /\ schedules'[Len(schedules')].scheduled_time
                     = ImmediateWindow.a
               /\ schedules'[Len(schedules')].end_time = ImmediateWindow.b

----------------------------------------------------------------------------
(* Inspections: models.Inspection, InspectionSerializer and the view of    *)
(* schedule/<schedule_id>/inspections/.                                    *)

\* request.data["rim_id"]
RimIds == {"R1", "R2"}

\* UniqueValidator of the serializer field built for
\* rim_id = CharField(unique=True): no stored inspection, of any schedule,
\* has the rim_id.
rim_id_unique(rim_id) ==
    \A k \in DOMAIN inspections : inspections[k].rim_id # rim_id

\* UniqueTogetherValidator built for unique_together = ("schedule", "rim_id").
unique_together(schedule, rim_id) ==
    \A k \in DOMAIN inspections :
        ~(inspections[k].schedule = schedule /\ inspections[k].rim_id = rim_id)

\* InspectionSerializer(data=).is_valid(): "schedule" of the body names a
\* stored Schedule (canceled or not) and the two validators pass.
InspectionSerializer_is_valid(schedule, rim_id) ==
    /\ schedule \in DOMAIN schedules
    /\ rim_id_unique(rim_id)
    /\ unique_together(schedule, rim_id)

\* POST schedule/<schedule_id>/inspections/ with the body {schedule, rim_id}:
\* is_valid(raise_exception=True), then serializer.save(schedule_id=
\* schedule_id), which stores the row under the schedule of the URL (a
\* schedule_id that names no Schedule fails on the foreign key).
create_inspection(schedule_id, schedule, rim_id) ==
    /\ IF /\ InspectionSerializer_is_valid(schedule, rim_id)
          /\ schedule_id \in DOMAIN schedules
       THEN /\ Len(inspections) < MaxInspections
            /\ inspections' = Append(inspections,
                  [schedule |-> schedule_id, rim_id |-> rim_id])
            /\ lastOp' = Response("create_inspection", "created", <<>>)
       ELSE /\ lastOp' = Response("create_inspection", "invalid", <<>>)
            /\ UNCHANGED inspections
    /\ UNCHANGED <<schedules, tasks, now, req, listing>>

CreateInspection ==
    \E schedule_id \in Ids, schedule \in Ids, rim_id \in RimIds :
        create_inspection(schedule_id, schedule, rim_id)

NextInspect == Create \/ Delete \/ CreateInspection

SpecInspect == Init /\ [][NextInspect]_vars

\* Some stored inspection of the booking has the rim identifier.
UsedUnder(schedule, rim_id) ==
    \E k \in DOMAIN inspections :
        inspections[k].schedule = schedule /\ inspections[k].rim_id = rim_id

\* C12: creating an inspection whose rim identifier is already used by an
\* inspection of the same booking is rejected and stores nothing; creating
\* one whose rim identifier is used only under a different booking succeeds.
C12_RimUniquePerBooking ==
    [][ \A i \in Ids, rim_id \in RimIds :
          ( /\ lastOp'.op = "create_inspection"
            /\ i \in DOMAIN schedules
            /\ create_inspection(i, i, rim_id) )
              => /\ UsedUnder(i, rim_id)
                    => /\ lastOp'.result = "invalid"
                       /\ inspections' = inspections
                 /\ ( /\ ~UsedUnder(i, rim_id)
                      /\ \E j \in Ids \ {i} : UsedUnder(j, rim_id) )
                    => /\ lastOp'.result = "created"
                       /\ inspections' = Append(inspections,
                             [schedule |-> i, rim_id |-> rim_id])
      ]_vars

----------------------------------------------------------------------------
(* The last minutes of day 0: the same handlers with the clock started at  *)
(* 23:58:30 and create requests for 23:50 and 23:58.                       *)

NightTimes == {<<23, 50, 0>>, <<23, 58, 0>>}

\* The reading of the clock after 23:58:30 of day 0: 00:01:00 of day 1.
NightReadings == {SecondsPerDay + 60}

InitNight ==
    /\ schedules = <<>>
    /\ tasks = {}
    /\ now = 23 * 3600 + 58 * 60 + 30
    /\ lastOp = Response("none", "", <<>>)
    /\ req = [p \in Procs |-> Idle]
    /\ inspections = <<>>
    /\ listing = <<>>

NightCreate ==
    \E l \in Locations, d \in Dates, t \in NightTimes :
        create_schedule(l, d, t)

NightClockTick == \E t \in NightReadings : Tick(t)

NextNight ==
    \/ NightCreate
    \/ CreateImmediately
    \/ Update
    \/ Delete
    \/ RunTask
    \/ NightClockTick

SpecNight == InitNight /\ [][NextNight]_vars

\* C13: every stored booking has end_time > scheduled_time, whatever start
\* time create, create_immediate and update accepted, the last minutes
\* before midnight included.
C13_EndAfterStart ==
    \A i \in DOMAIN schedules :
        schedules[i].end_time > schedules[i].scheduled_time

----------------------------------------------------------------------------
(* create with every combination of present and missing fields.            *)

\* The bodies of the create requests: each field present or missing.
AnyCreateRequests ==
    (Locations \cup {""}) \X (Dates \cup {<<>>}) \X (Times \cup {<<>>})

CreateAny == \E r \in AnyCreateRequests : create_schedule(r[1], r[2], r[3])

NextValidate == CreateAny \/ Delete \/ RunTask

SpecValidate == Init /\ [][NextValidate]_vars

\* The required fields a create request lacks.
Lacking(location, date, time) ==
    { f \in {"location", "scheduled_date", "scheduled_time"} :
        \/ f = "location" /\ location = ""
        \/ f = "scheduled_date" /\ date = <<>>
        \/ f = "scheduled_time" /\ time = <<>> }

\* C14: create with any non-empty subset of location, scheduled_date and
\* scheduled_time missing answers with a validation error that names
\* exactly the missing fields, each once; it inserts no booking and
\* schedules no transition.
C14_MissingFieldsListed ==
    [][ \A r \in AnyCreateRequests :
          ( /\ lastOp'.op = "create"
            /\ Lacking(r[1], r[2], r[3]) # {}
            /\ create_schedule(r[1], r[2], r[3]) )
              => /\ lastOp'.result = "missing"
                 /\ { lastOp'.missing[k] : k \in DOMAIN lastOp'.missing }
                      = Lacking(r[1], r[2], r[3])
                 /\ Len(lastOp'.missing)
                      = Cardinality(Lacking(r[1], r[2], r[3]))
                 /\ schedules' = schedules
                 /\ tasks' = tasks
      ]_vars

\* A create was answered with the three fields named, in the order the
\* handler tests them, while a booking is stored.
C14_Witness ==
    /\ lastOp.op = "create"
    /\ lastOp.result = "missing"
    /\ lastOp.missing = <<"location", "scheduled_date", "scheduled_time">>
    /\ schedules # <<>>

----------------------------------------------------------------------------
(* GET schedule/: the listing.                                             *)

\* order_by("id"): ascending.
RECURSIVE order_by_id(_)
order_by_id(ids) ==
    IF ids = {} THEN <<>>
    ELSE LET first == CHOOSE x \in ids : \A y \in ids : x <= y
         IN  <<first>> \o order_by_id(ids \ {first})

\* order_by("-id"): the ids from the greatest to the least.
RECURSIVE order_by_id_desc(_)
order_by_id_desc(ids) ==
    IF ids = {} THEN <<>>
    ELSE LET first == CHOOSE x \in ids : \A y \in ids : y <= x
         IN  <<first>> \o order_by_id_desc(ids \ {first})

\* Schedule.objects.filter(is_canceled=False): the ids of the rows.
Schedule_filter_live == { i \in DOMAIN schedules : ~schedules[i].is_canceled }

\* What a list request returns in this state.
Listed == order_by_id_desc(Schedule_filter_live)

\* GET schedule/
list_schedules ==
    /\ listing' = Listed
    /\ lastOp' = Response("list", "ok", <<>>)
    /\ UNCHANGED <<schedules, tasks, now, req, inspections>>

List == list_schedules

NextList == Create \/ Update \/ Delete \/ List

SpecList == Init /\ [][NextList]_vars

\* The elements of a sequence.
Range(seq) == { seq[k] : k \in DOMAIN seq }

\* C15: a list request returns exactly the bookings with is_canceled =
\* false, each once, by descending id, and changes nothing; a booking is out
\* of the listing as soon as its delete succeeds, and a stored booking that
\* is out of the listing never comes back into it.
C15_ListLiveNewestFirst ==
    [][ /\ (lastOp'.op = "list" /\ list_schedules)
            => /\ \A i \in Ids :
                    i \in Range(listing')
                      <=> (i \in DOMAIN schedules /\ ~schedules[i].is_canceled)
               /\ Range(listing') \subseteq Ids
               /\ \A k \in 1 .. Len(listing') - 1 :
                    listing'[k] > listing'[k + 1]
               /\ schedules' = schedules
        /\ \A i \in Ids :
              ( /\ lastOp'.op = "delete"
                /\ lastOp'.result = "deleted"
                /\ delete_schedule(i) )
                  => i \in Range(Listed) /\ i \notin Range(Listed')
        /\ \A i \in DOMAIN schedules :
              i \notin Range(Listed) => i \notin Range(Listed')
      ]_vars

\* A list request has just returned booking 2 alone, while booking 1 is
\* stored and canceled.
C15_Witness ==
    /\ lastOp.op = "list"
    /\ listing = <<2>>
    /\ Len(schedules) = 2
    /\ schedules[1].is_canceled

----------------------------------------------------------------------------
(* Transitions and the windows they were scheduled for.                    *)

\* The start and end instants of the stored window of booking i.
StartInstant(i) ==
    schedules[i].scheduled_date * SecondsPerDay + schedules[i].scheduled_time

EndInstant(i) ==
    schedules[i].scheduled_date * SecondsPerDay + schedules[i].end_time

\* C16: a "set Completed" transition scheduled for an earlier window of a
\* booking is a stale no-op after update: when it fires on the Processing
\* booking before the end instant of the stored window, the status stays
\* Processing, so that an updated booking is never Completed before its new
\* end instant.
C16_StaleCompletedNoOp ==
    [][ \A t \in tasks :
          ( /\ lastOp'.result = "ran"
            /\ run_task(t)
            /\ t.name = "set_status_completed"
            /\ ~schedules[t.id].is_canceled
            /\ schedules[t.id].status = "processing"
            /\ t.eta < EndInstant(t.id)
            /\ now < EndInstant(t.id) )
              => schedules'[t.id].status = "processing"
      ]_vars

\* The queue after the step holds, besides what it held, the two
\* transitions of booking i: "set Processing" at the start instant and "set
\* Completed" at the end instant of the window stored by the step.
TwoTransitionsFor(i) ==
    tasks' = tasks \cup
        { [name |-> "set_status_processing", id |-> i,
           eta |-> StartInstant(i)'],
          [name |-> "set_status_completed", id |-> i,
           eta |-> EndInstant(i)'] }

\* C17: each successful create, create_immediate and update schedules the
\* two transitions of the affected booking, "set Processing" at its stored
\* start instant and "set Completed" at its stored end instant, and nothing
\* else; a request that fails and delete schedule nothing.
C17_TwoTransitionsAtStoredInstants ==
    [][ /\ \A i \in Ids, l \in Locations, d \in Dates, t \in Times :
              ( /\ lastOp'.op = "create"
                /\ lastOp'.result = "created"
                /\ i = Len(schedules) + 1
                /\ create_schedule(l, d, t) )
                  => TwoTransitionsFor(i)
        /\ \A i \in Ids, l \in Locations :
              ( /\ lastOp'.op = "create_immediately"
                /\ lastOp'.result = "created"
                /\ i = Len(schedules) + 1
                /\ create_schedule_immediately(l) )
                  => TwoTransitionsFor(i)
        /\ \A i \in Ids, data \in UpdateData :
              ( /\ lastOp'.op = "update"
                /\ lastOp'.result = "updated"
                /\ update_schedule(i, data) )
                  => TwoTransitionsFor(i)
        /\ ( /\ lastOp'.op \in {"create", "create_immediately", "update",
                                "delete"}
             /\ lastOp'.result \notin {"created", "updated"} )
               => tasks' = tasks
      ]_vars

\* C18: an update rejected with a conflict leaves every booking, the target
\* included, as it was and schedules no transition; a booking never
\* conflicts with itself: an update is rejected only when a booking other
\* than the target overlaps the new window, and it succeeds when no other
\* one does.
C18_RejectedUpdateChangesNothing ==
    [][ \A i \in Ids, data \in UpdateData :
          ( /\ lastOp'.op = "update"
            /\ i \in DOMAIN schedules
            /\ ~schedules[i].is_canceled
            /\ update_schedule(i, data) )
              => /\ lastOp'.result = "conflict"
                    => /\ schedules' = schedules
                       /\ tasks' = tasks
                       /\ SomeOverlap(UpdateLocation(i, data), Today,
                                      UpdateWindow, i)
                 /\ ~SomeOverlap(UpdateLocation(i, data), Today,
                                 UpdateWindow, i)
                    => /\ lastOp'.result = "updated"
                       /\ schedules'[i].location = UpdateLocation(i, data)
      ]_vars

\* An update was rejected with a conflict while two bookings are stored,
\* neither canceled.
C18_Witness ==
    /\ lastOp.op = "update"
    /\ lastOp.result = "conflict"
    /\ Len(schedules) = 2
    /\ \A i \in DOMAIN schedules : ~schedules[i].is_canceled

WindowOfReading(i) ==
    /\ schedules'[i].scheduled_date = Today
    /\ schedules'[i].scheduled_time
         = (now - (now % SecondsPerMinute)) % SecondsPerDay
    /\ schedules'[i].end_time
         = schedules'[i].scheduled_time + WindowMinutes * SecondsPerMinute

\* C20: at the same clock reading, update and create_immediate store the
\* same window, scheduled_time the reading rounded down to the minute and
\* end_time exactly scheduled_time + 3 minutes, and schedule "set
\* Processing" and "set Completed" at exactly those two stored instants.
C20_UpdateAsCreateImmediate ==
    [][ /\ \A i \in Ids, l \in Locations :
              ( /\ lastOp'.op = "create_immediately"
                /\ lastOp'.result = "created"
                /\ i = Len(schedules) + 1
                /\ create_schedule_immediately(l) )
                  => WindowOfReading(i) /\ TwoTransitionsFor(i)
        /\ \A i \in Ids, data \in UpdateData :
              ( /\ lastOp'.op = "update"
                /\ lastOp'.result = "updated"
                /\ update_schedule(i, data) )
                  => WindowOfReading(i) /\ TwoTransitionsFor(i)
      ]_vars

====
